---- MODULE Spec2Model ----
(***************************************************************************)
(* RefferonBot (src/bot.py): the referral ledger and the quota-gated       *)
(* /sendlink distribution, as a state machine over the remote store.       *)
(*                                                                         *)
(* Every handler is a coroutine whose store calls are awaited one by one   *)
(* (asyncio.to_thread), so a handler is a sequence of atomic store calls   *)
(* and handlers of different updates interleave between those calls.  A    *)
(* request slot p holds one handler: its request, its position pc[p], its  *)
(* local variables, and its reply.                                         *)
(***************************************************************************)
EXTENDS Integers, Sequences, FiniteSets, TLC

\* ----------------------------------------------------------------- bounds
MaxUsers == 3        \* telegram ids 1..MaxUsers
MaxCodes == 2        \* referral codes 1..MaxCodes (random.choices may repeat)
MaxProcs == 2        \* updates handled concurrently (Spec)
MaxRequests == 1     \* updates handled one after another (SpecSeq)
MaxDay == 1          \* UTC dates 0..MaxDay
MaxCalls == 3        \* calls of initialize_bot in one process (SpecBoot)
MaxPopulation == 5   \* ids that may be registered when an audience is selected (SpecAudience)

\* ------------------------------------------------------ program constants
REFERRAL_POINTS == 10     \* points awarded per referral
REDEEM_COST == 50         \* points per reward
PAID_FANOUT == 30         \* recipients when paid opportunities are held
FREE_FANOUT == 3          \* recipients otherwise
WEBHOOK_RETRIES == 3      \* attempts of set_webhook_with_retry
UNIT_PRICE == 1           \* 0.01 TON per impression; money is counted in hundredths of a TON

Users == 1..MaxUsers
Codes == 1..MaxCodes
Procs == 1..MaxProcs
NoCode == 0               \* context.args empty: referred_by_code is None
Impressions == {5, 10}    \* buy_5_impressions, buy_10_impressions
\* The amounts posted to /payment-confirmation, in hundredths of a TON; the
\* handler takes the value from the request body as it is (line 549).
Amounts == {-10, 10}

\* ------------------------------------------------------------- the store
\* The counters of a row that was inserted without them: the columns'
\* defaults.
DefaultCounters ==
  [referrals |-> 0, points |-> 0, balance |-> 0, sendlink_opportunities |-> 0]

\* The row of user_profiles that start inserts (lines 119-124), keyed by
\* telegram_id.  username is carried along unread and is left out; the row's
\* id column, which send_link uses as user_id, is in one-to-one
\* correspondence with telegram_id and is identified with it.
NewProfile(code, referred_by) ==
  [referral_code |-> code, referred_by |-> referred_by] @@ DefaultCounters

\* created_at is written as datetime.now(timezone.utc).isoformat(): a string.
\* The store returns column values as JSON, so what is read back is that
\* string, not a datetime.
isoformat(day) == [type |-> "str", date |-> day]

\* str has no .date(); datetime has.
HasDateMethod(v) == v.type = "datetime"

\* The UTC date a created_at value denotes.
DateOf(v) == v.date

VARIABLES
  user_profiles,    \* table user_profiles: [registered telegram ids -> row]
  referral_links,   \* table referral_links: sequence of [user_id, created_at]
  transactions,     \* table transactions: sequence of rows
  today,            \* datetime.now(timezone.utc).date()
  pc,               \* per slot: the store call the handler makes next
  req,              \* per slot: the update being handled
  loc,              \* per slot: the handler's local variables
  reply,            \* per slot: the message sent back
  pre,              \* per slot: the store as it was when the update arrived
  nreq,             \* updates received so far
  application,      \* the global application: None or the instance built
  init_pc,          \* the call initialize_bot makes next, "idle" outside a call
  attempt,          \* loop counter of set_webhook_with_retry
  results           \* how each initialize_bot call ended, in order

vars == <<user_profiles, referral_links, transactions, today, pc, req, loc, reply, pre, nreq,
          application, init_pc, attempt, results>>
boot == <<application, init_pc, attempt, results>>
handling == <<user_profiles, referral_links, transactions, today, pc, req, loc, reply, pre, nreq>>
store == <<user_profiles, referral_links, transactions>>

NoRequest == [cmd |-> "none", telegram_id |-> 0, arg |-> 0]
NoRow == NewProfile(0, 0)
NoLocals ==
  [user |-> NoRow, user_id |-> 0, referral_code |-> 0,
   has_free_opportunity |-> FALSE, has_paid_opportunities |-> FALSE,
   num_users_to_share |-> 0, random_users |-> {}, attempted |-> {}, failed |-> {},
   limit_check_raised |-> FALSE]
Snapshot ==
  [user_profiles |-> user_profiles, referral_links |-> referral_links,
   transactions |-> transactions, today |-> today]

\* Handlers that have not replied yet.
InFlight == {p \in Procs : pc[p] \notin {"idle", "done"}}

\* ------------------------------------------------------ the application
\* The instance Application.builder().token(...).build() returns: nothing
\* has run on it yet.
Built ==
  [built |-> TRUE, initialized |-> FALSE, running |-> FALSE, handlers |-> FALSE,
   webhook |-> FALSE]

\* The instance after lines 623-646 all ran.
Complete ==
  [built |-> TRUE, initialized |-> TRUE, running |-> TRUE, handlers |-> TRUE,
   webhook |-> TRUE]

\* Line 40: application = None.
None ==
  [built |-> FALSE, initialized |-> FALSE, running |-> FALSE, handlers |-> FALSE,
   webhook |-> FALSE]

\* Updates are handled by an application whose construction went through.
Booted ==
  /\ application = Complete
  /\ init_pc = "idle"
  /\ attempt = 0
  /\ results = <<>>

\* The store before any update of the behaviour.  Account 1 is registered
\* and has a history: referrals made, a reward redeemed or not, a top-up and
\* a purchase made or not, a link sent on day 0 or not.  Account 2 is
\* registered and fresh, or not registered; the other ids are not registered.
InitAccount1 ==
  {[referral_code |-> 1, referred_by |-> NoCode, referrals |-> 5,
    points |-> pts, balance |-> bal, sendlink_opportunities |-> opp] :
     pts \in {0, 50}, bal \in {0, 10}, opp \in {0, 2}}

InitProfiles ==
  {(1 :> a) : a \in InitAccount1}
    \cup {(1 :> a) @@ (2 :> NewProfile(2, NoCode)) : a \in InitAccount1}

InitLinks == {<<>>, <<[user_id |-> 1, created_at |-> isoformat(0)]>>}

Init ==
  /\ user_profiles \in InitProfiles
  /\ referral_links \in InitLinks
  /\ transactions = <<>>
  /\ today = 0
  /\ pc = [p \in Procs |-> "idle"]
  /\ req = [p \in Procs |-> NoRequest]
  /\ loc = [p \in Procs |-> NoLocals]
  /\ reply = [p \in Procs |-> "none"]
  /\ pre = [p \in Procs |-> [user_profiles |-> <<>>, referral_links |-> <<>>,
                             transactions |-> <<>>, today |-> 0]]
  /\ nreq = 0
  /\ Booted

\* The handler of slot p replies with r and returns.
Finish(p, r) ==
  /\ pc' = [pc EXCEPT ![p] = "done"]
  /\ reply' = [reply EXCEPT ![p] = r]

Goto(p, label) ==
  /\ pc' = [pc EXCEPT ![p] = label]
  /\ UNCHANGED reply

\* ------------------------------------------------------- store primitives
\* (mutation of SelectByTelegramId: the lookup finds nothing)
SelectByTelegramId_Nothing(profiles, telegram_id) == {}

\* .select("*").eq("telegram_id", telegram_id): the ids of the rows returned.
SelectByTelegramId(profiles, telegram_id) ==
  {u \in DOMAIN profiles : u = telegram_id}

\* (mutation of SelectByReferralCode: the filter on the code is left out)
SelectByReferralCode_Unfiltered(profiles, code) == DOMAIN profiles

\* .select("*").eq("referral_code", code): the ids of the rows returned.
SelectByReferralCode(profiles, code) ==
  {u \in DOMAIN profiles : profiles[u].referral_code = code}

\* .update(payload).eq("telegram_id", telegram_id): the named columns of the
\* matching row are overwritten; no row matching is not an error.
Update(profiles, telegram_id, payload) ==
  [u \in DOMAIN profiles |->
     IF u = telegram_id
       THEN [f \in DOMAIN profiles[u] |->
               IF f \in DOMAIN payload THEN payload[f] ELSE profiles[u][f]]
       ELSE profiles[u]]

\* .insert(row) into user_profiles; telegram_id identifies the account, so a
\* second row for the same telegram_id is rejected by the store.
CanInsert(profiles, telegram_id) == telegram_id \notin DOMAIN profiles
Insert(profiles, telegram_id, row) == profiles @@ (telegram_id :> row)

\* --------------------------------------------------------------- updates
Requests ==
  [cmd : {"start"}, telegram_id : Users, arg : {NoCode} \cup Codes]
    \cup [cmd : {"sendlink"}, telegram_id : Users, arg : {0, 1}]
    \cup [cmd : {"redeem"}, telegram_id : Users, arg : {0}]
    \cup [cmd : {"buy"}, telegram_id : Users, arg : Impressions]
    \cup [cmd : {"payment"}, telegram_id : Users, arg : Amounts]

\* An update arrives at slot p and its handler runs up to its first store
\* call.
\* send_link returns at once when it is given no argument (lines 141-143).
Receive(p, r) ==
  /\ pc[p] \in {"idle", "done"}
  /\ nreq' = nreq + 1
  /\ req' = [req EXCEPT ![p] = r]
  /\ loc' = [loc EXCEPT ![p] = NoLocals]
  /\ pre' = [pre EXCEPT ![p] = Snapshot]
  /\ IF r.cmd = "sendlink" /\ r.arg = 0
       THEN Finish(p, "usage")
       ELSE /\ pc' = [pc EXCEPT ![p] = r.cmd]
            /\ reply' = [reply EXCEPT ![p] = "none"]
  /\ UNCHANGED <<store, today, boot>>

\* The UTC date rolls over.
Tick ==
  /\ today < MaxDay
  /\ today' = today + 1
  /\ UNCHANGED <<store, pc, req, loc, reply, pre, nreq, boot>>

\* ----------------------------------------------------------------- start
\* generate_referral_code: 8 random characters; nothing checks the result
\* against the codes already issued.
generate_referral_code == Codes

\* (mutation of ReferrerCredit: the points are not awarded)
ReferrerCredit_NoPoints(referrer) ==
  [referrals |-> referrer.referrals + 1, points |-> referrer.points]

\* The columns start writes to the referrer's row.
ReferrerCredit(referrer) ==
  [referrals |-> referrer.referrals + 1,
   points |-> referrer.points + REFERRAL_POINTS]

\* Lines 86-105 up to the next store call: the user is looked up; a known
\* user gets the welcome reply; for a new one a code is generated and the
\* handler goes on to look up the referrer, or to the insert without one.
start_select_user(p) ==
  /\ pc[p] = "start"
  /\ LET found == SelectByTelegramId(user_profiles, req[p].telegram_id) IN
       IF found # {}
         THEN /\ Finish(p, "welcome")
              /\ loc' = [loc EXCEPT ![p].referral_code =
                           user_profiles[req[p].telegram_id].referral_code]
         ELSE /\ \E code \in generate_referral_code :
                   loc' = [loc EXCEPT ![p].referral_code = code]
              /\ Goto(p, IF req[p].arg # NoCode THEN "start_referrer"
                                               ELSE "start_insert")
  /\ UNCHANGED <<store, today, req, pre, nreq, boot>>

\* Lines 99-107: the referrer is looked up by the code given; data[0] is any
\* of the rows holding that code.
start_select_referrer(p) ==
  /\ pc[p] = "start_referrer"
  /\ LET found == SelectByReferralCode(user_profiles, req[p].arg) IN
       IF found = {}
         THEN /\ Finish(p, "invalid_referral_code")
              /\ UNCHANGED loc
         ELSE /\ \E r \in found :
                   loc' = [loc EXCEPT ![p].user = user_profiles[r],
                                      ![p].user_id = r]
              /\ Goto(p, "start_credit")
  /\ UNCHANGED <<store, today, req, pre, nreq, boot>>

\* Lines 110-115: the referrer's counters are overwritten with the values
\* read at line 100, plus the credit.
start_update_referrer(p) ==
  /\ pc[p] = "start_credit"
  /\ user_profiles' = Update(user_profiles, loc[p].user_id, ReferrerCredit(loc[p].user))
  /\ Goto(p, "start_insert")
  /\ UNCHANGED <<referral_links, transactions, today, req, loc, pre, nreq, boot>>

\* Lines 118-134: the new row is inserted and the welcome is sent; a rejected
\* insert raises, and the handler replies with the error message.
start_insert_user(p) ==
  /\ pc[p] = "start_insert"
  /\ IF CanInsert(user_profiles, req[p].telegram_id)
       THEN /\ user_profiles' = Insert(user_profiles, req[p].telegram_id,
                                       NewProfile(loc[p].referral_code, req[p].arg))
            /\ Finish(p, "welcome")
       ELSE /\ UNCHANGED user_profiles
            /\ Finish(p, "error")
  /\ UNCHANGED <<referral_links, transactions, today, req, loc, pre, nreq, boot>>

\* ------------------------------------------------------------- send_link
\* The rows .eq("user_id", user_id).order("created_at", desc=True).limit(1)
\* returns: the latest link of the user, if any.
LastLinks(links, user_id) ==
  {i \in 1..Len(links) :
     /\ links[i].user_id = user_id
     /\ \A j \in 1..Len(links) :
          links[j].user_id = user_id =>
            DateOf(links[j].created_at) <= DateOf(links[i].created_at)}

\* check_daily_sendlink_limit: TRUE with no link of the user; otherwise the
\* date of the latest one is compared with today's.  .date() is called on
\* the created_at value as the store returned it, which raises when that
\* value has no such method; the handler at lines 74-77 then returns False.
check_daily_sendlink_limit(links, user_id, now) ==
  LET data == LastLinks(links, user_id) IN
    IF data = {} THEN TRUE
    ELSE LET created_at == links[CHOOSE i \in data : TRUE].created_at IN
           IF ~HasDateMethod(created_at) THEN FALSE
           ELSE DateOf(created_at) # now

\* Line 162.
HasPaidOpportunities(user) == user.sendlink_opportunities > 0

\* (mutation of PaidDeduction: the opportunity is not deducted)
PaidDeduction_NotDeducted(user) ==
  [sendlink_opportunities |-> user.sendlink_opportunities]

\* Line 177: the column written when a paid opportunity is used.
PaidDeduction(user) ==
  [sendlink_opportunities |-> user.sendlink_opportunities - 1]

\* Line 191.
NumUsersToShare(has_paid_opportunities) ==
  IF has_paid_opportunities THEN PAID_FANOUT ELSE FREE_FANOUT

\* (mutation of SelectAudience: the sender's own row is not filtered out)
SelectAudience_WithSender(profiles, telegram_id, n) ==
  {a \in SUBSET DOMAIN profiles :
     Cardinality(a) = IF Cardinality(DOMAIN profiles) < n
                        THEN Cardinality(DOMAIN profiles) ELSE n}

\* Lines 194-199: .neq("telegram_id", telegram_id).limit(n) returns n of the
\* other rows, or all of them when there are fewer; no order is asked for.
SelectAudience(profiles, telegram_id, n) ==
  LET others == DOMAIN profiles \ {telegram_id} IN
    {a \in SUBSET others :
       Cardinality(a) = IF Cardinality(others) < n THEN Cardinality(others) ELSE n}

RECURSIVE DeliverTo(_, _, _, _)
RECURSIVE DeliverTo_Abort(_, _, _, _)

\* (mutation of NoAudience: an empty audience is not told apart)
NoAudience_Never(random_users) == FALSE

\* Line 201.
NoAudience(random_users) == random_users = {}

\* (mutation of DeliverTo: the first failure ends the loop and the handler)
DeliverTo_Abort(todo, unreachable, attempted, failed) ==
  IF todo = {} THEN [attempted |-> attempted, failed |-> failed, reply |-> "shared"]
  ELSE LET user == CHOOSE u \in todo : \A v \in todo : u <= v IN
         IF user \in unreachable
           THEN [attempted |-> attempted \cup {user}, failed |-> failed \cup {user},
                 reply |-> "error"]
           ELSE DeliverTo_Abort(todo \ {user}, unreachable, attempted \cup {user}, failed)

\* Lines 205-211: the loop over the users still to be served; send_message
\* is called for each, an exception is logged and the loop goes on; after
\* the loop the sender is told the link was shared.
DeliverTo(todo, unreachable, attempted, failed) ==
  IF todo = {} THEN [attempted |-> attempted, failed |-> failed, reply |-> "shared"]
  ELSE LET user == CHOOSE u \in todo : \A v \in todo : u <= v IN
         DeliverTo(todo \ {user}, unreachable, attempted \cup {user},
                   IF user \in unreachable THEN failed \cup {user} ELSE failed)

\* Lines 201-211: what send_link does with the selected users.
Deliver(random_users, unreachable) ==
  IF NoAudience(random_users)
    THEN [attempted |-> {}, failed |-> {}, reply |-> "no_users_available"]
    ELSE DeliverTo(random_users, unreachable, {}, {})

\* Lines 148-156.
send_link_select_user(p) ==
  /\ pc[p] = "sendlink"
  /\ LET found == SelectByTelegramId(user_profiles, req[p].telegram_id) IN
       IF found = {}
         THEN /\ Finish(p, "not_registered")
              /\ UNCHANGED loc
         ELSE /\ loc' = [loc EXCEPT ![p].user = user_profiles[req[p].telegram_id],
                                    ![p].user_id = req[p].telegram_id]
              /\ Goto(p, "send_check")
  /\ UNCHANGED <<store, today, req, pre, nreq, boot>>

\* (mutation of Denied: no send is ever denied)
Denied_Never(has_free_opportunity, has_paid_opportunities) == FALSE

\* Line 165.
Denied(has_free_opportunity, has_paid_opportunities) ==
  ~has_free_opportunity /\ ~has_paid_opportunities

\* Lines 162-172: the paid check and the denial, given the result of the
\* daily check; raised records that the check's store call raised and was
\* caught (lines 74-76).
send_link_decide(p, has_free, raised) ==
  LET has_paid == HasPaidOpportunities(loc[p].user)
  IN /\ loc' = [loc EXCEPT ![p].has_free_opportunity = has_free,
                           ![p].has_paid_opportunities = has_paid,
                           ![p].limit_check_raised = raised]
     /\ IF Denied(has_free, has_paid)
          THEN Finish(p, "no_opportunities")
          ELSE Goto(p, IF has_free THEN "send_insert" ELSE "send_deduct")

\* Lines 158-172: the daily check, the paid check, and the denial.
send_link_check(p) ==
  /\ pc[p] = "send_check"
  /\ send_link_decide(p, check_daily_sendlink_limit(referral_links, loc[p].user_id, today),
                      FALSE)
  /\ UNCHANGED <<store, today, req, pre, nreq, boot>>

\* Lines 53-60, 74-77: the store call of the daily check raises; the check
\* answers False and send_link goes on from there.
send_link_check_raises(p) ==
  /\ pc[p] = "send_check"
  /\ send_link_decide(p, FALSE, TRUE)
  /\ UNCHANGED <<store, today, req, pre, nreq, boot>>

\* Lines 175-179: the paid opportunity is deducted from the value read at
\* line 148.
send_link_deduct(p) ==
  /\ pc[p] = "send_deduct"
  /\ user_profiles' = Update(user_profiles, req[p].telegram_id, PaidDeduction(loc[p].user))
  /\ Goto(p, "send_insert")
  /\ UNCHANGED <<referral_links, transactions, today, req, loc, pre, nreq, boot>>

\* (mutation of InsertLink: the store keeps one link per account and date)
InsertLink_OncePerDay(links, user_id, now) ==
  IF \E i \in 1..Len(links) : links[i] = [user_id |-> user_id, created_at |-> isoformat(now)]
    THEN links
    ELSE Append(links, [user_id |-> user_id, created_at |-> isoformat(now)])

\* Lines 182-188: the insert into referral_links; nothing restricts the rows
\* an account may have for one date.
InsertLink(links, user_id, now) ==
  Append(links, [user_id |-> user_id, created_at |-> isoformat(now)])

\* Lines 182-191: the link is recorded and the fan-out size is chosen.
send_link_insert(p) ==
  /\ pc[p] = "send_insert"
  /\ referral_links' = InsertLink(referral_links, loc[p].user_id, today)
  /\ loc' = [loc EXCEPT ![p].num_users_to_share =
                          NumUsersToShare(loc[p].has_paid_opportunities)]
  /\ Goto(p, "send_audience")
  /\ UNCHANGED <<user_profiles, transactions, today, req, pre, nreq, boot>>

\* Lines 194-211: the audience is selected; with none the sender is told so,
\* otherwise the link is delivered to each and the sender is told it was
\* shared.
send_link_distribute(p) ==
  /\ pc[p] = "send_audience"
  /\ \E a \in SelectAudience(user_profiles, req[p].telegram_id, loc[p].num_users_to_share) :
       LET d == Deliver(a, {}) IN
         /\ loc' = [loc EXCEPT ![p].random_users = a,
                               ![p].attempted = d.attempted, ![p].failed = d.failed]
         /\ Finish(p, d.reply)
  /\ UNCHANGED <<store, today, req, pre, nreq, boot>>

\* Lines 194-211 when send_message raises for some of the selected users
\* (they blocked the bot, say).
send_link_distribute_unreachable(p) ==
  /\ pc[p] = "send_audience"
  /\ \E a \in SelectAudience(user_profiles, req[p].telegram_id, loc[p].num_users_to_share) :
       \E unreachable \in SUBSET a \ {{}} :
         LET d == Deliver(a, unreachable) IN
           /\ loc' = [loc EXCEPT ![p].random_users = a,
                                 ![p].attempted = d.attempted, ![p].failed = d.failed]
           /\ Finish(p, d.reply)
  /\ UNCHANGED <<store, today, req, pre, nreq, boot>>

\* ---------------------------------------------------------------- redeem
\* (mutation of CanRedeem: exactly 50 points are not enough)
CanRedeem_Strict(user) == user.points > REDEEM_COST

\* Line 252.
CanRedeem(user) == ~(user.points < REDEEM_COST)

\* Line 259: the column written by a redemption.
RedeemDeduction(user) == [points |-> user.points - REDEEM_COST]

\* Lines 242-254.
redeem_select_user(p) ==
  /\ pc[p] = "redeem"
  /\ LET found == SelectByTelegramId(user_profiles, req[p].telegram_id) IN
       IF found = {}
         THEN /\ Finish(p, "not_registered")
              /\ UNCHANGED loc
         ELSE IF ~CanRedeem(user_profiles[req[p].telegram_id])
           THEN /\ Finish(p, "need_points")
                /\ UNCHANGED loc
           ELSE /\ loc' = [loc EXCEPT ![p].user = user_profiles[req[p].telegram_id],
                                      ![p].user_id = req[p].telegram_id]
                /\ Goto(p, "redeem_deduct")
  /\ UNCHANGED <<store, today, req, pre, nreq, boot>>

\* Lines 257-264.
redeem_deduct(p) ==
  /\ pc[p] = "redeem_deduct"
  /\ user_profiles' = Update(user_profiles, req[p].telegram_id, RedeemDeduction(loc[p].user))
  /\ Finish(p, "redeemed")
  /\ UNCHANGED <<referral_links, transactions, today, req, loc, pre, nreq, boot>>

\* ------------------------------------------------ handle_buy_impressions
\* Line 362.
Price(impressions) == impressions * UNIT_PRICE

\* Line 369: the balance read, 0 when the account has no row.
BalanceOf(profiles, telegram_id) ==
  IF SelectByTelegramId(profiles, telegram_id) = {} THEN 0
  ELSE profiles[telegram_id].balance

\* Lines 366-374.
buy_select_balance(p) ==
  /\ pc[p] = "buy"
  /\ LET user_balance == BalanceOf(user_profiles, req[p].telegram_id) IN
       IF user_balance < Price(req[p].arg)
         THEN /\ Finish(p, "insufficient_balance")
              /\ UNCHANGED loc
         ELSE /\ loc' = [loc EXCEPT ![p].user.balance = user_balance,
                                    ![p].user_id = req[p].telegram_id]
              /\ Goto(p, "buy_debit")
  /\ UNCHANGED <<store, today, req, pre, nreq, boot>>

\* (mutation of new_balance: the purchase is not charged)
new_balance_NotCharged(user_balance, price) == user_balance

\* Line 377.
new_balance(user_balance, price) == user_balance - price

\* Lines 377-382.
buy_debit(p) ==
  /\ pc[p] = "buy_debit"
  /\ user_profiles' = Update(user_profiles, req[p].telegram_id,
                             [balance |-> new_balance(loc[p].user.balance, Price(req[p].arg))])
  /\ Goto(p, "buy_grant")
  /\ UNCHANGED <<referral_links, transactions, today, req, loc, pre, nreq, boot>>

\* Lines 385-389.
buy_grant(p) ==
  /\ pc[p] = "buy_grant"
  /\ user_profiles' = Update(user_profiles, req[p].telegram_id,
                             [sendlink_opportunities |-> req[p].arg])
  /\ Goto(p, "buy_log")
  /\ UNCHANGED <<referral_links, transactions, today, req, loc, pre, nreq, boot>>

\* Lines 392-402.
buy_log(p) ==
  /\ pc[p] = "buy_log"
  /\ transactions' = Append(transactions,
                            [user_id |-> req[p].telegram_id, amount |-> Price(req[p].arg),
                             transaction_type |-> "purchase", status |-> "completed"])
  /\ Finish(p, "purchased")
  /\ UNCHANGED <<user_profiles, referral_links, today, req, loc, pre, nreq, boot>>

\* -------------------------------------------------- payment_confirmation
\* Lines 553-557.
payment_update_balance(p) ==
  /\ pc[p] = "payment"
  /\ user_profiles' = Update(user_profiles, req[p].telegram_id, [balance |-> req[p].arg])
  /\ Goto(p, "payment_log")
  /\ UNCHANGED <<referral_links, transactions, today, req, loc, pre, nreq, boot>>

\* Lines 560-572.
payment_log(p) ==
  /\ pc[p] = "payment_log"
  /\ transactions' = Append(transactions,
                            [user_id |-> req[p].telegram_id, amount |-> req[p].arg,
                             transaction_type |-> "topup", status |-> "completed"])
  /\ Finish(p, "payment_confirmed")
  /\ UNCHANGED <<user_profiles, referral_links, today, req, loc, pre, nreq, boot>>

\* -------------------------------------------------------- specifications
\* One store call of the handler in slot p.
Step(p) ==
  \/ start_select_user(p)
  \/ start_select_referrer(p)
  \/ start_update_referrer(p)
  \/ start_insert_user(p)
  \/ send_link_select_user(p)
  \/ send_link_check(p)
  \/ send_link_deduct(p)
  \/ send_link_insert(p)
  \/ send_link_distribute(p)
  \/ redeem_select_user(p)
  \/ redeem_deduct(p)
  \/ buy_select_balance(p)
  \/ buy_debit(p)
  \/ buy_grant(p)
  \/ buy_log(p)
  \/ payment_update_balance(p)
  \/ payment_log(p)

\* Updates are handled concurrently: each slot handles one update, which may
\* arrive while the others are between two store calls.
ReceiveAny ==
  \E p \in Procs, r \in Requests :
    /\ pc[p] = "idle"
    /\ \A q \in 1..(p - 1) : pc[q] # "idle"
    /\ Receive(p, r)

\* Updates are handled one at a time, all in slot 1: a new one arrives only
\* when the handler before it has replied.
ReceiveNext ==
  \E r \in Requests :
    /\ InFlight = {}
    /\ nreq < MaxRequests
    /\ Receive(1, r)

Next == ReceiveAny \/ Tick \/ \E p \in Procs : Step(p)
Spec == Init /\ [][Next]_vars

\* ... and the date rolls over between two of them.
TickBetween == InFlight = {} /\ Tick

NextSeq == ReceiveNext \/ TickBetween \/ \E p \in Procs : Step(p)
SpecSeq == Init /\ [][NextSeq]_vars

\* A store call is pending at each of these positions; the daily check
\* ("send_check") catches its own exceptions.
StoreCalls ==
  {"start", "start_referrer", "start_credit", "start_insert",
   "sendlink", "send_deduct", "send_insert", "send_audience",
   "redeem", "redeem_deduct",
   "buy", "buy_debit", "buy_grant", "buy_log",
   "payment", "payment_log"}

\* Lines 131-134, 213-216, 266-269, 404-407, 573-576: the pending store call
\* of slot p raises (the store is unreachable, say) and writes nothing; the
\* handler's except clause logs the error and replies with the error message
\* (status 500 for a payment confirmation). Nothing written before is undone.
store_error(p) ==
  /\ pc[p] \in StoreCalls
  /\ Finish(p, "error")
  /\ UNCHANGED <<store, today, req, loc, pre, nreq, boot>>

\* Updates handled one at a time, where a store call may raise and a
\* delivery may fail.
StepFail(p) ==
  \/ Step(p)
  \/ store_error(p)
  \/ send_link_check_raises(p)
  \/ send_link_distribute_unreachable(p)

NextFail == ReceiveNext \/ TickBetween \/ \E p \in Procs : StepFail(p)
SpecFail == Init /\ [][NextFail]_vars

\* ---------------------------------------------------- audience selection
\* send_link over stores of up to MaxPopulation accounts, so that the limit
\* of line 198 has more rows to choose from than it returns.  Any of the ids
\* may be registered, with paid opportunities left or without; account 1 has
\* sent a link on day 0 or not.
Population == 1..MaxPopulation

InitAudienceProfiles ==
  {[u \in registered |->
      [NewProfile(u, NoCode) EXCEPT
         !.sendlink_opportunities = IF u \in paid THEN 2 ELSE 0]] :
     registered \in SUBSET Population, paid \in SUBSET Population}

InitAudience ==
  /\ user_profiles \in InitAudienceProfiles
  /\ referral_links \in InitLinks
  /\ transactions = <<>>
  /\ today = 0
  /\ pc = [p \in Procs |-> "idle"]
  /\ req = [p \in Procs |-> NoRequest]
  /\ loc = [p \in Procs |-> NoLocals]
  /\ reply = [p \in Procs |-> "none"]
  /\ pre = [p \in Procs |-> [user_profiles |-> <<>>, referral_links |-> <<>>,
                             transactions |-> <<>>, today |-> 0]]
  /\ nreq = 0
  /\ Booted

\* One /sendlink <url> from any of the ids; the delivery to any of the
\* selected users may fail.
ReceiveSendLink ==
  \E u \in Population :
    /\ InFlight = {}
    /\ nreq < MaxRequests
    /\ Receive(1, [cmd |-> "sendlink", telegram_id |-> u, arg |-> 1])

StepSendLink(p) ==
  \/ send_link_select_user(p)
  \/ send_link_check(p)
  \/ send_link_deduct(p)
  \/ send_link_insert(p)
  \/ send_link_distribute(p)
  \/ send_link_distribute_unreachable(p)

NextAudience == ReceiveSendLink \/ \E p \in Procs : StepSendLink(p)
SpecAudience == InitAudience /\ [][NextAudience]_vars

\* ------------------------------------------------------ concurrent sends
\* /sendlink <url> updates of registered accounts handled concurrently, each
\* in a slot of its own, while the date may roll over.
ReceiveSendLinkAny ==
  \E p \in Procs, u \in DOMAIN user_profiles :
    /\ pc[p] = "idle"
    /\ \A q \in 1..(p - 1) : pc[q] # "idle"
    /\ Receive(p, [cmd |-> "sendlink", telegram_id |-> u, arg |-> 1])

StepSendLinkDelivered(p) ==
  \/ send_link_select_user(p)
  \/ send_link_check(p)
  \/ send_link_deduct(p)
  \/ send_link_insert(p)
  \/ send_link_distribute(p)

NextRace == ReceiveSendLinkAny \/ Tick \/ \E p \in Procs : StepSendLinkDelivered(p)
SpecRace == Init /\ [][NextRace]_vars

\* --------------------------------------------------------- initialize_bot
\* A call of initialize_bot ends: it returned the application a, or raised.
Returned(a) == [outcome |-> "returned", application |-> a]
Raised == [outcome |-> "raised", application |-> None]

\* Lines 616-618: a call finds the global set and returns it as it is.
initialize_bot_already ==
  /\ init_pc = "idle"
  /\ Len(results) < MaxCalls
  /\ application # None
  /\ results' = Append(results, Returned(application))
  /\ UNCHANGED <<handling, application, init_pc, attempt>>

\* Lines 580-602: an update is posted to /webhook (slot 1 holds it).  With
\* no application the answer is 500.  With an application that is not
\* initialized, initialize_bot is called, which takes the branch of lines
\* 616-618, and process_update is called on what it left: it raises (500) or
\* goes through (200), depending on the library.  Otherwise process_update
\* runs (200).  What the handlers do with the update is the matter of the
\* other specifications.
webhook ==
  /\ init_pc = "idle"
  /\ InFlight = {}
  /\ nreq < MaxRequests
  /\ nreq' = nreq + 1
  /\ req' = [req EXCEPT ![1] = [cmd |-> "webhook", telegram_id |-> 0, arg |-> 0]]
  /\ pc' = [pc EXCEPT ![1] = "done"]
  /\ IF application = None
       THEN /\ reply' = [reply EXCEPT ![1] = "not_initialized"]
            /\ UNCHANGED results
       ELSE IF ~application.initialized
         THEN /\ Len(results) < MaxCalls
              /\ results' = Append(results, Returned(application))
              /\ \E r \in {"error", "ok"} : reply' = [reply EXCEPT ![1] = r]
         ELSE /\ reply' = [reply EXCEPT ![1] = "ok"]
              /\ UNCHANGED results
  /\ UNCHANGED <<store, today, loc, pre, application, init_pc, attempt>>

\* Line 623: a call finds the global unset and the builder raises (no valid
\* token, say): nothing is assigned.
initialize_bot_build_raises ==
  /\ init_pc = "idle"
  /\ Len(results) < MaxCalls
  /\ application = None
  /\ results' = Append(results, Raised)
  /\ UNCHANGED <<handling, application, init_pc, attempt>>

\* Line 623: a call finds the global unset, builds the instance and assigns
\* it to the global.
initialize_bot_build ==
  /\ init_pc = "idle"
  /\ Len(results) < MaxCalls
  /\ application = None
  /\ application' = Built
  /\ init_pc' = "initialize"
  /\ UNCHANGED <<handling, attempt, results>>

\* Lines 648-651: the except clause logs and raises again; the loop of line
\* 621 never comes to a second attempt, and the global keeps what line 623
\* assigned.
initialize_bot_raises ==
  /\ init_pc' = "idle"
  /\ results' = Append(results, Raised)

\* Line 626: application.initialize() runs, or raises.
application_initialize ==
  /\ init_pc = "initialize"
  /\ \/ /\ application' = [application EXCEPT !.initialized = TRUE]
        /\ init_pc' = "start"
        /\ UNCHANGED results
     \/ /\ initialize_bot_raises
        /\ UNCHANGED application
  /\ UNCHANGED <<handling, attempt>>

\* Line 627: application.start() runs, or raises.
application_start ==
  /\ init_pc = "start"
  /\ \/ /\ application' = [application EXCEPT !.running = TRUE]
        /\ init_pc' = "add_handlers"
        /\ UNCHANGED results
     \/ /\ initialize_bot_raises
        /\ UNCHANGED application
  /\ UNCHANGED <<handling, attempt>>

\* Lines 630-640: the handlers are registered.
add_handlers ==
  /\ init_pc = "add_handlers"
  /\ application' = [application EXCEPT !.handlers = TRUE]
  /\ init_pc' = "set_webhook"
  /\ attempt' = 0
  /\ UNCHANGED <<handling, results>>

\* Lines 643-647, 654-660: set_webhook succeeds and initialize_bot returns
\* the application.
set_webhook_with_retry ==
  /\ init_pc = "set_webhook"
  /\ application' = [application EXCEPT !.webhook = TRUE]
  /\ init_pc' = "idle"
  /\ results' = Append(results, Returned(application'))
  /\ UNCHANGED <<handling, attempt>>

\* Lines 661-665: set_webhook raises; the last attempt raises again, the
\* others are followed by another attempt.
set_webhook_raises ==
  /\ init_pc = "set_webhook"
  /\ IF attempt = WEBHOOK_RETRIES - 1
       THEN /\ initialize_bot_raises
            /\ UNCHANGED attempt
       ELSE /\ attempt' = attempt + 1
            /\ UNCHANGED <<init_pc, results>>
  /\ UNCHANGED <<handling, application>>

\* A fresh process: no application yet, and no update is handled while
\* initialize_bot runs; the store is left out of the picture.
InitBoot ==
  /\ user_profiles = <<>>
  /\ referral_links = <<>>
  /\ transactions = <<>>
  /\ today = 0
  /\ pc = [p \in Procs |-> "idle"]
  /\ req = [p \in Procs |-> NoRequest]
  /\ loc = [p \in Procs |-> NoLocals]
  /\ reply = [p \in Procs |-> "none"]
  /\ pre = [p \in Procs |-> [user_profiles |-> <<>>, referral_links |-> <<>>,
                             transactions |-> <<>>, today |-> 0]]
  /\ nreq = 0
  /\ application = None
  /\ init_pc = "idle"
  /\ attempt = 0
  /\ results = <<>>

\* The calls of initialize_bot of one process, one after another, and the
\* updates posted to /webhook in between.
NextBoot ==
  \/ initialize_bot_build
  \/ initialize_bot_build_raises
  \/ initialize_bot_already
  \/ webhook
  \/ application_initialize
  \/ application_start
  \/ add_handlers
  \/ set_webhook_with_retry
  \/ set_webhook_raises

SpecBoot == InitBoot /\ [][NextBoot]_vars

\* ================================================================ claims
\* The handler of slot p has replied.
Done(p) == pc[p] = "done"

\* What slot p's update found in the store when it arrived.
WasRegistered(p) == req[p].telegram_id \in DOMAIN pre[p].user_profiles
AccountBefore(p) == pre[p].user_profiles[req[p].telegram_id]

\* The links account u recorded on date d.
LinksOn(links, u, d) ==
  {i \in 1..Len(links) : links[i].user_id = u /\ DateOf(links[i].created_at) = d}
LinksOf(links, u) == {i \in 1..Len(links) : links[i].user_id = u}

\* A /sendlink with a link argument, by a registered account, has replied.
SendDone(p) ==
  /\ Done(p)
  /\ req[p].cmd = "sendlink"
  /\ req[p].arg = 1
  /\ WasRegistered(p)

\* The send was allowed: it went past the quota check.
SendAllowed(p) == reply[p] \in {"shared", "no_users_available"}

\* Exactly one link event, of the sender, was added to the log.
OneLinkRecorded(p) ==
  /\ Len(referral_links) = Len(pre[p].referral_links) + 1
  /\ SubSeq(referral_links, 1, Len(pre[p].referral_links)) = pre[p].referral_links
  /\ referral_links[Len(referral_links)].user_id = req[p].telegram_id

\* As the update arrived, the sender had no link event of today / had one.
NoLinkToday(p) ==
  LinksOn(pre[p].referral_links, req[p].telegram_id, pre[p].today) = {}
LinkToday(p) ==
  LinksOn(pre[p].referral_links, req[p].telegram_id, pre[p].today) # {}

\* C1: a send by an account with no link event today and opportunities
\* k > 0 is allowed with fan-out 3, records one link event and leaves
\* opportunities at k.
C1_FreeTierFirst ==
  \A p \in Procs :
    (SendDone(p) /\ NoLinkToday(p) /\ AccountBefore(p).sendlink_opportunities > 0)
      => /\ SendAllowed(p)
         /\ loc[p].num_users_to_share = FREE_FANOUT
         /\ OneLinkRecorded(p)
         /\ user_profiles[req[p].telegram_id].sendlink_opportunities
              = AccountBefore(p).sendlink_opportunities

\* C2: with opportunities = 0, the send of an account with no link event
\* today is allowed with fan-out 3 and records exactly one link event; the
\* send of an account that has a link event today is denied, records no link
\* event and changes no counter.
C2_FreeQuotaOncePerDay ==
  \A p \in Procs :
    (SendDone(p) /\ AccountBefore(p).sendlink_opportunities = 0)
      => /\ NoLinkToday(p) =>
              /\ SendAllowed(p)
              /\ loc[p].num_users_to_share = FREE_FANOUT
              /\ OneLinkRecorded(p)
              /\ user_profiles = pre[p].user_profiles
         /\ LinkToday(p) =>
              /\ reply[p] = "no_opportunities"
              /\ referral_links = pre[p].referral_links
              /\ user_profiles = pre[p].user_profiles

\* C3: the send of an account whose latest link event is of an earlier UTC
\* date is allowed on the free tier: fan-out 3, opportunities untouched, also
\* when opportunities = 0.
C3_DailyReset ==
  \A p \in Procs :
    (SendDone(p) /\ NoLinkToday(p)
       /\ LinksOf(pre[p].referral_links, req[p].telegram_id) # {})
      => /\ SendAllowed(p)
         /\ loc[p].num_users_to_share = FREE_FANOUT
         /\ OneLinkRecorded(p)
         /\ user_profiles = pre[p].user_profiles

\* C4: a send by an account that has a link event today and opportunities
\* k > 0 is allowed with fan-out 30, leaves opportunities at k - 1 and
\* records exactly one link event.
PaidCase(p) ==
  SendDone(p) /\ LinkToday(p) /\ AccountBefore(p).sendlink_opportunities > 0

C4_PaidSend ==
  \A p \in Procs :
    PaidCase(p)
      => /\ SendAllowed(p)
         /\ loc[p].num_users_to_share = PAID_FANOUT
         /\ OneLinkRecorded(p)
         /\ user_profiles =
              [pre[p].user_profiles EXCEPT
                 ![req[p].telegram_id].sendlink_opportunities = @ - 1]

C4_Witness ==
  \E p \in Procs :
    /\ PaidCase(p)
    /\ AccountBefore(p).sendlink_opportunities = 2
    /\ user_profiles[req[p].telegram_id].sendlink_opportunities = 1

\* A /start has replied.
StartDone(p) == Done(p) /\ req[p].cmd = "start"

\* The accounts that held code c as slot p's update arrived.
HoldersBefore(p, c) ==
  {u \in DOMAIN pre[p].user_profiles : pre[p].user_profiles[u].referral_code = c}

\* A /start of an account that did not exist, with a code some account held.
ReferredCase(p) ==
  /\ StartDone(p)
  /\ ~WasRegistered(p)
  /\ req[p].arg # NoCode
  /\ HoldersBefore(p, req[p].arg) # {}

\* C5: after the registration of a new account with a code that resolves to
\* account R, R has one referral and 10 points more than before, the new
\* account exists with referred_by equal to the code, and no other account
\* has changed.
C5_ReferredRegistration ==
  \A p \in Procs :
    ReferredCase(p)
      => LET R == loc[p].user_id
             new == req[p].telegram_id
         IN /\ reply[p] = "welcome"
            /\ R \in HoldersBefore(p, req[p].arg)
            /\ DOMAIN user_profiles = DOMAIN pre[p].user_profiles \cup {new}
            /\ user_profiles[R] =
                 [pre[p].user_profiles[R] EXCEPT !.referrals = @ + 1, !.points = @ + 10]
            /\ user_profiles[new].referred_by = req[p].arg
            /\ \A u \in DOMAIN pre[p].user_profiles \ {R} :
                 user_profiles[u] = pre[p].user_profiles[u]

C5_Witness ==
  \E p \in Procs :
    /\ ReferredCase(p)
    /\ reply[p] = "welcome"
    /\ user_profiles[loc[p].user_id].points = 60
    /\ user_profiles[loc[p].user_id].referrals = 6

\* C6: a /start of an account that exists writes nothing, whatever its
\* argument: accounts, links and transactions are as before.
C6_IdempotentRegistration ==
  \A p \in Procs :
    (StartDone(p) /\ WasRegistered(p))
      => /\ reply[p] = "welcome"
         /\ user_profiles = pre[p].user_profiles
         /\ referral_links = pre[p].referral_links
         /\ transactions = pre[p].transactions

\* ... reached with the valid code of another account as the argument.
C6_Witness ==
  \E p \in Procs :
    /\ StartDone(p)
    /\ WasRegistered(p)
    /\ req[p].arg # NoCode
    /\ HoldersBefore(p, req[p].arg) \ {req[p].telegram_id} # {}
    /\ reply[p] = "welcome"

\* A /start of an account that did not exist, with a code no account held.
UnknownCodeCase(p) ==
  /\ StartDone(p)
  /\ ~WasRegistered(p)
  /\ req[p].arg # NoCode
  /\ HoldersBefore(p, req[p].arg) = {}

\* C7: the registration of a new account with a code that resolves to no
\* account ends with the invalid-code reply, creates no account and modifies
\* none.
C7_UnknownReferralCode ==
  \A p \in Procs :
    UnknownCodeCase(p)
      => /\ reply[p] = "invalid_referral_code"
         /\ user_profiles = pre[p].user_profiles

C7_Witness ==
  \E p \in Procs :
    /\ UnknownCodeCase(p)
    /\ reply[p] = "invalid_referral_code"
    /\ req[p].telegram_id \notin DOMAIN user_profiles

\* A /redeem of a registered account has replied.
RedeemDone(p) == Done(p) /\ req[p].cmd = "redeem" /\ WasRegistered(p)

\* C10: /redeem with fewer than 50 points is refused and changes nothing;
\* with p >= 50 points it succeeds and leaves p - 50; no other attribute of
\* any account changes.
C10_RedeemThreshold ==
  \A p \in Procs :
    RedeemDone(p)
      => /\ AccountBefore(p).points < 50 =>
              /\ reply[p] = "need_points"
              /\ user_profiles = pre[p].user_profiles
         /\ AccountBefore(p).points >= 50 =>
              /\ reply[p] = "redeemed"
              /\ user_profiles =
                   [pre[p].user_profiles EXCEPT ![req[p].telegram_id].points = @ - 50]

\* ... reached with exactly 50 points, which become 0.
C10_Witness ==
  \E p \in Procs :
    /\ RedeemDone(p)
    /\ AccountBefore(p).points = 50
    /\ reply[p] = "redeemed"
    /\ user_profiles[req[p].telegram_id].points = 0

\* Slots p and q hold the only updates received, and both have replied.
OnlyTwo(p, q) ==
  /\ p # q
  /\ Done(p)
  /\ Done(q)
  /\ \A s \in Procs \ {p, q} : pc[s] = "idle"

\* Both are /start updates with the same code, and both handlers read the
\* same account R as the referrer (lines 100-107); p arrived first.
SameReferrer(p, q) ==
  /\ req[p].cmd = "start"
  /\ req[q].cmd = "start"
  /\ ~WasRegistered(p)
  /\ ~WasRegistered(q)
  /\ req[p].arg # NoCode
  /\ req[p].arg = req[q].arg
  /\ loc[p].user_id # 0
  /\ loc[p].user_id = loc[q].user_id
  /\ loc[p].user_id \in DOMAIN pre[p].user_profiles
  /\ pre[p].user_profiles[loc[p].user_id].referrals
       <= pre[q].user_profiles[loc[q].user_id].referrals

\* C8: whatever the interleaving of two /start updates for the same new
\* account id with the same valid code, the referrer ends with at most one
\* referral and at most 10 points more than before.
C8_CreditedAtMostOnce ==
  \A p, q \in Procs :
    (OnlyTwo(p, q) /\ SameReferrer(p, q) /\ req[p].telegram_id = req[q].telegram_id)
      => LET R == loc[p].user_id IN
           /\ user_profiles[R].referrals <= pre[p].user_profiles[R].referrals + 1
           /\ user_profiles[R].points <= pre[p].user_profiles[R].points + 10

\* C9: when two distinct new accounts register with the same valid code and
\* both registrations complete, the referrer ends with exactly 2 referrals
\* and exactly 20 points more than before, whatever the interleaving.
C9_NoLostCredit ==
  \A p, q \in Procs :
    (/\ OnlyTwo(p, q)
     /\ SameReferrer(p, q)
     /\ req[p].telegram_id # req[q].telegram_id
     /\ reply[p] = "welcome"
     /\ reply[q] = "welcome")
      => LET R == loc[p].user_id IN
           /\ user_profiles[R].referrals = pre[p].user_profiles[R].referrals + 2
           /\ user_profiles[R].points = pre[p].user_profiles[R].points + 20

\* ------------------------------------------------------------------- C11
BuyDone(p) == Done(p) /\ req[p].cmd = "buy"

\* The completed purchase row of lines 392-399.
PurchaseRow(telegram_id, impressions) ==
  [user_id |-> telegram_id, amount |-> Price(impressions),
   transaction_type |-> "purchase", status |-> "completed"]

PaymentDone(p) == Done(p) /\ req[p].cmd = "payment"

\* C12: after a payment confirmation of amount a on an account whose balance
\* was b the balance is b + a, and exactly one completed topup transaction
\* has been appended.
C12_PaymentCredits ==
  \A p \in Procs :
    (PaymentDone(p) /\ WasRegistered(p) /\ reply[p] = "payment_confirmed") =>
      /\ user_profiles[req[p].telegram_id].balance = AccountBefore(p).balance + req[p].arg
      /\ transactions = Append(pre[p].transactions,
                               [user_id |-> req[p].telegram_id, amount |-> req[p].arg,
                                transaction_type |-> "topup", status |-> "completed"])

\* ------------------------------------------------------------------- C13
\* What the send of slot p left in the store.
OpportunityConsumed(p) ==
  user_profiles[req[p].telegram_id].sendlink_opportunities
    < AccountBefore(p).sendlink_opportunities
LinkRecorded(p) == Len(referral_links) > Len(pre[p].referral_links)

\* C13: for every send attempt, also one in which a store call raises at any
\* step, the link event and the paid opportunity go together: an opportunity
\* is consumed only if the link event of that send is recorded, and a send on
\* the paid tier that recorded its event consumed one opportunity.
C13_EventAndDecrementAreAUnit ==
  \A p \in Procs :
    SendDone(p) =>
      /\ OpportunityConsumed(p) => LinkRecorded(p)
      /\ (LinkRecorded(p) /\ ~loc[p].has_free_opportunity) => OpportunityConsumed(p)

\* ------------------------------------------------------------------- C14
\* Nothing in the store differs from what slot p's update found.
NothingWritten(p) ==
  /\ user_profiles = pre[p].user_profiles
  /\ referral_links = pre[p].referral_links
  /\ transactions = pre[p].transactions

\* Every write of a registration with a referrer took effect.
RegistrationApplied(p) ==
  /\ req[p].telegram_id \in DOMAIN user_profiles
  /\ \E r \in HoldersBefore(p, req[p].arg) :
       user_profiles[r] = [pre[p].user_profiles[r] EXCEPT
                             !.referrals = @ + 1, !.points = @ + REFERRAL_POINTS]

\* Every write of a purchase took effect.
PurchaseApplied(p) ==
  /\ user_profiles = [pre[p].user_profiles EXCEPT
                        ![req[p].telegram_id].balance = @ - Price(req[p].arg),
                        ![req[p].telegram_id].sendlink_opportunities = req[p].arg]
  /\ transactions = Append(pre[p].transactions, PurchaseRow(req[p].telegram_id, req[p].arg))

\* C14: when a store call raises partway through a registration with a
\* referrer or through a purchase, either all the writes of the operation
\* took effect or none did.
C14_NoPartialState ==
  \A p \in Procs :
    /\ ReferredCase(p) => (NothingWritten(p) \/ RegistrationApplied(p))
    /\ (BuyDone(p) /\ WasRegistered(p)) => (NothingWritten(p) \/ PurchaseApplied(p))

\* ------------------------------------------------------------------- C15
\* The other accounts, as the send of slot p selected its audience (nothing
\* is registered while a send runs alone).
OthersOf(p) == DOMAIN pre[p].user_profiles \ {req[p].telegram_id}

\* C15: the audience of an allowed send by S with fan-out n never contains
\* S, consists of other registered accounts, each once, has at most n
\* members, and is exactly all the other accounts when there are fewer than
\* n of them.
C15_AudienceSelection ==
  \A p \in Procs :
    (SendDone(p) /\ SendAllowed(p)) =>
      LET n == loc[p].num_users_to_share
          a == loc[p].random_users
      IN /\ n \in {FREE_FANOUT, PAID_FANOUT}
         /\ req[p].telegram_id \notin a
         /\ a \subseteq OthersOf(p)
         /\ Cardinality(a) <= n
         /\ Cardinality(OthersOf(p)) < n => a = OthersOf(p)
         /\ Cardinality(OthersOf(p)) >= n => Cardinality(a) = n

\* A free send with four other accounts registered reaches three of them.
C15_Witness ==
  \E p \in Procs :
    /\ SendDone(p) /\ SendAllowed(p)
    /\ loc[p].num_users_to_share = FREE_FANOUT
    /\ Cardinality(OthersOf(p)) > FREE_FANOUT
    /\ Cardinality(loc[p].random_users) = FREE_FANOUT
    /\ loc[p].random_users # OthersOf(p)

\* ------------------------------------------------------------------- C16
\* The delivery to some selected user failed during the send of slot p.
DeliveryFailed(p) == SendDone(p) /\ loc[p].failed # {}

\* C16: when the delivery to a recipient fails, the delivery to every other
\* selected recipient is still attempted, the link event stays recorded and
\* a paid opportunity stays consumed, and the sender is told the link was
\* shared.
C16_BestEffortDelivery ==
  \A p \in Procs :
    DeliveryFailed(p) =>
      /\ reply[p] = "shared"
      /\ loc[p].attempted = loc[p].random_users
      /\ loc[p].failed \subseteq loc[p].attempted
      /\ OneLinkRecorded(p)
      /\ ~loc[p].has_free_opportunity => OpportunityConsumed(p)

\* The first of several recipients could not be reached, and a later one
\* was served.
C16_Witness ==
  \E p \in Procs :
    /\ DeliveryFailed(p)
    /\ reply[p] = "shared"
    /\ \E u \in loc[p].failed :
         \E v \in loc[p].attempted \ loc[p].failed : u < v

\* ------------------------------------------------------------------- C17
\* An allowed send (its link event is recorded) found no other account.
EmptyAudienceCase(p) == SendDone(p) /\ LinkRecorded(p) /\ OthersOf(p) = {}

\* C17: an allowed send that finds no other registered account ends with
\* the no-users-available reply, not with the shared reply, and attempts no
\* delivery.
C17_EmptyAudience ==
  \A p \in Procs :
    EmptyAudienceCase(p) =>
      /\ reply[p] = "no_users_available"
      /\ loc[p].random_users = {}
      /\ loc[p].attempted = {}

C17_Witness ==
  \E p \in Procs :
    /\ EmptyAudienceCase(p)
    /\ reply[p] = "no_users_available"
    /\ loc[p].attempted = {}

\* ------------------------------------------------------------------- C18
\* C18: in every reachable state every account has referrals >= 0,
\* points >= 0, balance >= 0 and sendlink_opportunities >= 0.
C18_NonNegativeCounters ==
  \A u \in DOMAIN user_profiles :
    /\ user_profiles[u].referrals >= 0
    /\ user_profiles[u].points >= 0
    /\ user_profiles[u].balance >= 0
    /\ user_profiles[u].sendlink_opportunities >= 0

\* ------------------------------------------------------------------- C19
\* C19: in every reachable state no two distinct accounts hold the same
\* referral code.
C19_ReferralCodesUnique ==
  \A u, v \in DOMAIN user_profiles :
    u # v => user_profiles[u].referral_code # user_profiles[v].referral_code

\* ------------------------------------------------------------------- C20
\* Log s is the beginning of log t: t keeps every row of s as it was.
IsPrefix(s, t) == Len(s) <= Len(t) /\ SubSeq(t, 1, Len(s)) = s

\* The step records the link event of slot p's send, which went past the
\* quota check on a tier the account had as the update arrived.
AllowedInsert(p) ==
  /\ pc[p] = "send_insert"
  /\ referral_links' = Append(referral_links,
                              [user_id |-> req[p].telegram_id, created_at |-> isoformat(today)])
  /\ loc[p].has_free_opportunity \/ loc[p].has_paid_opportunities
  /\ loc[p].has_free_opportunity => NoLinkToday(p)
  /\ loc[p].has_paid_opportunities => AccountBefore(p).sendlink_opportunities > 0

BothFree(p, q) ==
  /\ p < q
  /\ SendDone(p) /\ SendDone(q)
  /\ req[p].telegram_id = req[q].telegram_id
  /\ loc[p].has_free_opportunity /\ loc[q].has_free_opportunity

\* C21: when two sends of one account have both observed the free
\* opportunity, both succeed: each records its link event, so the account
\* has at least two link events more than before, and an account without
\* opportunities paid for neither.
C21_FreeQuotaRace ==
  \A p, q \in Procs :
    BothFree(p, q) =>
      /\ SendAllowed(p) /\ SendAllowed(q)
      /\ Cardinality(LinksOf(referral_links, req[p].telegram_id))
           >= Cardinality(LinksOf(pre[p].referral_links, req[p].telegram_id)) + 2
      /\ AccountBefore(p).sendlink_opportunities = 0
           => user_profiles[req[p].telegram_id].sendlink_opportunities = 0

\* An account with no link event and no opportunities sent twice at once:
\* it has two link events of the same date.
C21_Witness ==
  \E p, q \in Procs :
    /\ BothFree(p, q)
    /\ AccountBefore(p).sendlink_opportunities = 0
    /\ LinksOf(pre[p].referral_links, req[p].telegram_id) = {}
    /\ Cardinality(LinksOn(referral_links, req[p].telegram_id, today)) = 2

\* ------------------------------------------------------------------- C22
\* The store call of the daily check raised during the send of slot p.
LimitCheckRaised(p) == SendDone(p) /\ loc[p].limit_check_raised

\* C22: a send whose daily check could not reach the store ends with the
\* error reply and has written nothing: no opportunity deducted, no link
\* event recorded.
C22_CheckFailureSurfaced ==
  \A p \in Procs :
    LimitCheckRaised(p) =>
      /\ reply[p] = "error"
      /\ NothingWritten(p)

\* ------------------------------------------------------------------- C23
\* C23: whenever a call of initialize_bot returned an application without
\* raising, the application it returned had completed initialisation:
\* initialize and start ran, the handlers and the webhook were registered.
C23_ReturnedMeansInitialised ==
  \A i \in 1..Len(results) :
    results[i].outcome = "returned" => results[i].application = Complete

====
